---- MODULE Spec2Model ----
(***************************************************************************)
(* Model of the arithmetic-expression core of AritmathAPI:                 *)
(*   tokenizer.py  LexicalAnalyzer   (tokenize, validate_tokens)           *)
(*   parser.py     SyntacticAnalyzer (parse, evaluate, solve_step_by_step, *)
(*                                    to_string)                           *)
(*   app.py        process_raw_expression_pipeline                         *)
(*                                                                         *)
(* Representation.                                                         *)
(*  - A Python str is a sequence of one-character strings.                 *)
(*  - A token is the pair <<text, type>> (Python's (value, type) tuple);   *)
(*    Python index 0/1 is TLA+ index 1/2.                                  *)
(*  - A float is an exact rational <<n, d>> in lowest terms, d > 0 except  *)
(*    for -0.0, which is <<0, -1>>.  The bounds keep every value inside    *)
(*    the range where float64 arithmetic and the rational agree on the     *)
(*    comparisons the code makes.                                          *)
(*  - None is the record None; an absent token (Optional[Tuple]) is <<>>.  *)
(*  - A call returns Ok(v) or Raise(exc, msg); msg is a sequence of        *)
(*    message pieces.                                                      *)
(*  - Cursor positions are 0-based as in the code.                         *)
(***************************************************************************)
EXTENDS Integers, Sequences, FiniteSets

None == [tag |-> "None"]

Ok(v) == [ok |-> TRUE, val |-> v]

Raise(exc, msg) == [ok |-> FALSE, exc |-> exc, msg |-> msg]

(***************************************************************************)
(* Bounds of the model.                                                    *)
(***************************************************************************)
MaxTokens == 5

MaxNodes == 5

MaxChars == 4

MaxCursorTokens == 3

MaxRequests == 2

(***************************************************************************)
(* float arithmetic, as exact rationals.                                   *)
(***************************************************************************)
Abs(x) == IF x < 0 THEN -x ELSE x

RECURSIVE Gcd(_, _)
Gcd(a, b) == IF b = 0 THEN a ELSE Gcd(b, a % b)

Norm(n, d) ==
    LET g == Gcd(Abs(n), Abs(d))
        s == IF d < 0 THEN -1 ELSE 1
    IN  <<(s * n) \div g, (s * d) \div g>>

FloatOfInt(i) == <<i, 1>>

\* Zero carries its sign in the denominator: 0.0 is <<0, 1>>, -0.0 is <<0, -1>>.
FZero(negative) == IF negative THEN <<0, -1>> ELSE <<0, 1>>

FIsNeg(a) == a[1] < 0 \/ (a[1] = 0 /\ a[2] < 0)

FDen(a) == Abs(a[2])

FIsZero(a) == a[1] = 0

\* a == b on floats (-0.0 == 0.0).
FEq(a, b) == a[1] = b[1] /\ FDen(a) = FDen(b)

FNeg(a) == IF a[1] = 0 THEN <<0, -a[2]>> ELSE <<-a[1], a[2]>>

FAdd(a, b) ==
    LET n == a[1] * FDen(b) + b[1] * FDen(a)
    IN  IF n = 0
        THEN FZero(a[1] = 0 /\ b[1] = 0 /\ FIsNeg(a) /\ FIsNeg(b))
        ELSE Norm(n, FDen(a) * FDen(b))

FSub(a, b) == FAdd(a, FNeg(b))

FMul(a, b) ==
    IF a[1] * b[1] = 0 THEN FZero(FIsNeg(a) # FIsNeg(b))
    ELSE Norm(a[1] * b[1], FDen(a) * FDen(b))

FDiv(a, b) ==
    IF a[1] = 0 THEN FZero(FIsNeg(a) # FIsNeg(b))
    ELSE Norm(a[1] * FDen(b), FDen(a) * b[1])

(***************************************************************************)
(* Characters and number <-> text conversions.                             *)
(***************************************************************************)
DigitChars == <<"0", "1", "2", "3", "4", "5", "6", "7", "8", "9">>

Digits == {DigitChars[i] : i \in 1..10}

DigitVal(c) == (CHOOSE i \in 1..10 : DigitChars[i] = c) - 1

Whitespace == {" ", "\t", "\n", "\r", "\f"}

RECURSIVE NatStr(_)
NatStr(n) ==
    IF n < 10 THEN <<DigitChars[n + 1]>>
    ELSE NatStr(n \div 10) \o <<DigitChars[(n % 10) + 1]>>

RECURSIVE IntOfDigits(_)
IntOfDigits(s) ==
    IF s = <<>> THEN 0
    ELSE 10 * IntOfDigits(SubSeq(s, 1, Len(s) - 1)) + DigitVal(s[Len(s)])

RECURSIVE Pow10(_)
Pow10(k) == IF k = 0 THEN 1 ELSE 10 * Pow10(k - 1)

IsDigitRun(s) == s # <<>> /\ \A i \in 1..Len(s) : s[i] \in Digits

DotPositions(s) == {i \in 1..Len(s) : s[i] = "."}

\* The texts float() is given by _factor: those of the NUMBER pattern.
IsNumberText(s) ==
    \/ IsDigitRun(s)
    \/ /\ Cardinality(DotPositions(s)) = 1
       /\ LET p == CHOOSE i \in DotPositions(s) : TRUE
          IN  IsDigitRun(SubSeq(s, 1, p - 1)) /\ IsDigitRun(SubSeq(s, p + 1, Len(s)))

\* float(text) for a text of the NUMBER pattern.
FloatOfText(s) ==
    IF DotPositions(s) = {} THEN FloatOfInt(IntOfDigits(s))
    ELSE LET p    == CHOOSE i \in DotPositions(s) : TRUE
             ip   == SubSeq(s, 1, p - 1)
             fp   == SubSeq(s, p + 1, Len(s))
         IN  Norm(IntOfDigits(ip) * Pow10(Len(fp)) + IntOfDigits(fp), Pow10(Len(fp)))

\* Fraction digits of rem/d by long division, at most k digits.
RECURSIVE FracDigits(_, _, _)
FracDigits(rem, d, k) ==
    IF rem = 0 \/ k = 0 THEN <<>>
    ELSE <<DigitChars[((rem * 10) \div d) + 1]>> \o FracDigits((rem * 10) % d, d, k - 1)

\* str(x) of a float: sign, integer part, '.', fraction digits ("0" when
\* there are none).  Exact for the values whose decimal expansion ends
\* (all leaves of the model); other values are cut at 16 digits.
FloatStr(a) ==
    LET n    == Abs(a[1])
        d    == FDen(a)
        frac == FracDigits(n % d, d, 16)
    IN  (IF FIsNeg(a) THEN <<"-">> ELSE <<>>)
        \o NatStr(n \div d) \o <<".">>
        \o (IF frac = <<>> THEN <<"0">> ELSE frac)

\* f"{x:.1f}": one fraction digit, round half to even.
Fmt1f(a) ==
    LET n   == Abs(a[1]) * 10
        d   == FDen(a)
        q   == n \div d
        rem == n % d
        r   == IF 2 * rem > d \/ (2 * rem = d /\ q % 2 = 1) THEN q + 1 ELSE q
    IN  (IF FIsNeg(a) THEN <<"-">> ELSE <<>>)
        \o NatStr(r \div 10) \o <<".">> \o <<DigitChars[(r % 10) + 1]>>

(***************************************************************************)
(* tokenizer.py: LexicalAnalyzer                                           *)
(***************************************************************************)
Operators == {"PLUS", "MINUS", "MULTIPLY", "DIVIDE"}

\* Mutation of ScanDigits: the pattern reads \d where it has \d+.
ScanDigitsOne(expression, pos) ==
    IF pos < Len(expression) /\ expression[pos + 1] \in Digits
    THEN pos + 1
    ELSE pos

\* End (0-based, exclusive) of the run of digits that starts at pos.
RECURSIVE ScanDigits(_, _)
ScanDigits(expression, pos) ==
    IF pos < Len(expression) /\ expression[pos + 1] \in Digits
    THEN ScanDigits(expression, pos + 1)
    ELSE pos

RECURSIVE ScanWhitespace(_, _)
ScanWhitespace(expression, pos) ==
    IF pos < Len(expression) /\ expression[pos + 1] \in Whitespace
    THEN ScanWhitespace(expression, pos + 1)
    ELSE pos

\* self.pattern.match(expression, position): <<type, end>> of the first
\* alternative of token_patterns that matches at position, or <<>>.
PatternMatch(expression, position) ==
    LET c == expression[position + 1]
    IN  IF c \in Digits THEN
            LET e1 == ScanDigits(expression, position)
                e2 == IF /\ e1 + 1 < Len(expression)
                         /\ expression[e1 + 1] = "."
                         /\ expression[e1 + 2] \in Digits
                      THEN ScanDigits(expression, e1 + 1)
                      ELSE e1
            IN  <<"NUMBER", e2>>
        ELSE IF c = "+" THEN <<"PLUS", position + 1>>
        ELSE IF c = "-" THEN <<"MINUS", position + 1>>
        ELSE IF c = "*" THEN <<"MULTIPLY", position + 1>>
        ELSE IF c = "/" THEN <<"DIVIDE", position + 1>>
        ELSE IF c = "(" THEN <<"LPAREN", position + 1>>
        ELSE IF c = ")" THEN <<"RPAREN", position + 1>>
        ELSE IF c \in Whitespace THEN <<"WHITESPACE", ScanWhitespace(expression, position)>>
        ELSE <<>>

RECURSIVE TokenizeFrom(_, _, _)

\* Mutation of TokenizeStep: the message reports a 1-based position.
TokenizeStepOneBased(expression, position, toks, match) ==
    IF match # <<>> THEN
        TokenizeFrom(expression, match[2],
            IF match[1] # "WHITESPACE"
            THEN Append(toks, <<SubSeq(expression, position + 1, match[2]), match[1]>>)
            ELSE toks)
    ELSE Raise("ValueError",
               <<"Invalid character '", expression[position + 1],
                 "' at position ">> \o NatStr(position + 1))

\* One turn of the while loop of tokenize, match being the result of
\* self.pattern.match(expression, position).
TokenizeStep(expression, position, toks, match) ==
    IF match # <<>> THEN
        TokenizeFrom(expression, match[2],
            IF match[1] # "WHITESPACE"
            THEN Append(toks, <<SubSeq(expression, position + 1, match[2]), match[1]>>)
            ELSE toks)
    ELSE Raise("ValueError",
               <<"Invalid character '", expression[position + 1],
                 "' at position ">> \o NatStr(position))

TokenizeFrom(expression, position, toks) ==
    IF position < Len(expression)
    THEN TokenizeStep(expression, position, toks, PatternMatch(expression, position))
    ELSE Ok(toks)

tokenize(expression) == TokenizeFrom(expression, 0, <<>>)

\* Mutation of AdjacencyRejected: the NUMBER NUMBER test is missing.
AdjacencyRejectedNoNumberPair(prev_type, token_type) ==
    /\ prev_type # ""
    /\ \/ /\ prev_type \in Operators
          /\ token_type \in Operators \cup {"RPAREN"}
       \/ /\ token_type = "LPAREN"
          /\ prev_type \notin Operators \cup {"LPAREN"}

\* The "if prev_type:" block of validate_tokens: TRUE when it returns False.
\* prev_type "" stands for None (both are falsy).
AdjacencyRejected(prev_type, token_type) ==
    /\ prev_type # ""
    /\ \/ /\ prev_type \in Operators
          /\ token_type \in Operators \cup {"RPAREN"}
       \/ prev_type = "NUMBER" /\ token_type = "NUMBER"
       \/ /\ token_type = "LPAREN"
          /\ prev_type \notin Operators \cup {"LPAREN"}

\* The loop of validate_tokens from index i (1-based) on.  Returns
\* <<FALSE>> on an early "return False", else <<TRUE, paren_count>>.
RECURSIVE ValidateLoop(_, _, _, _)
ValidateLoop(toks, i, prev_type, paren_count) ==
    IF i > Len(toks) THEN <<TRUE, paren_count>>
    ELSE
        LET token_type == toks[i][2]
            pc1 == IF token_type = "LPAREN" THEN paren_count + 1
                   ELSE IF token_type = "RPAREN" THEN paren_count - 1
                   ELSE paren_count
        IN  IF token_type = "RPAREN" /\ pc1 < 0 THEN <<FALSE>>
            ELSE IF AdjacencyRejected(prev_type, token_type) THEN <<FALSE>>
            ELSE ValidateLoop(toks, i + 1, token_type, pc1)

\* Mutation of ValidateEnd: the final "paren_count != 0" test is missing.
ValidateEndNoBalance(toks, r) ==
    IF ~r[1] THEN FALSE
    ELSE IF toks[Len(toks)][2] \in Operators THEN FALSE
    ELSE TRUE

\* validate_tokens after its loop, r being what the loop returned.
ValidateEnd(toks, r) ==
    IF ~r[1] THEN FALSE
    ELSE IF r[2] # 0 THEN FALSE
    ELSE IF toks[Len(toks)][2] \in Operators THEN FALSE
    ELSE TRUE

validate_tokens(toks) ==
    IF toks = <<>> THEN FALSE
    ELSE ValidateEnd(toks, ValidateLoop(toks, 1, "", 0))

(***************************************************************************)
(* parser.py: ASTNode and SyntacticAnalyzer                                *)
(***************************************************************************)
ASTNode(value, left, right, node_type) ==
    [value |-> value, left |-> left, right |-> right, node_type |-> node_type]

\* The methods the class SyntacticAnalyzer defines.
SyntacticAnalyzerMethods ==
    {"__init__", "current_token", "consume", "peek", "parse", "_expression",
     "_term", "_factor", "evaluate", "_evaluate_node", "solve_step_by_step",
     "_solve_with_steps", "to_string", "_node_to_string"}

\* SyntacticAnalyzer(tokens)
SyntacticAnalyzer(toks) ==
    [tokens |-> toks, current_token_index |-> 0, steps |-> <<>>]

current_token(toks, idx) ==
    IF idx < Len(toks) THEN toks[idx + 1] ELSE <<>>

peek(toks, idx) ==
    IF idx < Len(toks) - 1 THEN toks[idx + 2] ELSE <<>>

\* A parsing call returns its value together with the cursor it leaves:
\* [ok, val, idx] or [ok, exc, msg, idx].
POk(v, idx) == [ok |-> TRUE, val |-> v, idx |-> idx]

PRaise(exc, msg, idx) == [ok |-> FALSE, exc |-> exc, msg |-> msg, idx |-> idx]

\* Mutation of consume: the cursor is advanced before the type is compared.
consumeAdvanceFirst(toks, idx, expected_type) ==
    IF idx >= Len(toks) THEN
        PRaise("SyntaxError", <<"Unexpected end of expression">>, idx)
    ELSE
        LET token == toks[idx + 1]
        IN  IF expected_type # "" /\ token[2] # expected_type THEN
                PRaise("SyntaxError",
                       <<"Expected ", expected_type, ", got ", token[2]>>, idx + 1)
            ELSE POk(token, idx + 1)

\* expected_type "" stands for None (both are falsy).
consume(toks, idx, expected_type) ==
    IF idx >= Len(toks) THEN
        PRaise("SyntaxError", <<"Unexpected end of expression">>, idx)
    ELSE
        LET token == toks[idx + 1]
        IN  IF expected_type # "" /\ token[2] # expected_type THEN
                PRaise("SyntaxError",
                       <<"Expected ", expected_type, ", got ", token[2]>>, idx)
            ELSE POk(token, idx + 1)

\* What _factor does with a NUMBER token.
FactorNumber(toks, idx) ==
    LET token == toks[idx + 1]
    IN  IF IsNumberText(token[1])
        THEN POk(ASTNode(FloatOfText(token[1]), None, None, "NUMBER"), idx)
        ELSE PRaise("ValueError", <<"could not convert string to float">>, idx)

RECURSIVE _expression(_, _)
RECURSIVE _term(_, _)
RECURSIVE _factor(_, _)
RECURSIVE ExpressionLoop(_, _)
RECURSIVE TermLoop(_, _)

\* node = ASTNode(token[0], node, right, "BINARY_OP"), right being the
\* result of the call that parsed the right operand.
BinaryNode(token, node, right) ==
    IF ~right.ok THEN right
    ELSE POk(ASTNode(token[1], node, right.val, "BINARY_OP"), right.idx)

\* return ASTNode(token[0], None, operand, "UNARY_OP")
UnaryNode(token, operand) ==
    IF ~operand.ok THEN operand
    ELSE POk(ASTNode(token[1], None, operand.val, "UNARY_OP"), operand.idx)

\* self.consume("RPAREN"); return node
CloseParen(toks, node) ==
    IF ~node.ok THEN node
    ELSE LET rp == consume(toks, node.idx, "RPAREN")
         IN  IF ~rp.ok THEN rp ELSE POk(node.val, rp.idx)

\* The while loop of _expression, r being the node parsed so far with the
\* cursor after it (an exception raised so far propagates).
ExpressionLoop(toks, r) ==
    IF ~r.ok THEN r
    ELSE IF /\ current_token(toks, r.idx) # <<>>
            /\ current_token(toks, r.idx)[2] \in {"PLUS", "MINUS"}
    THEN LET token == consume(toks, r.idx, "")
         IN  ExpressionLoop(toks, BinaryNode(token.val, r.val, _term(toks, token.idx)))
    ELSE r

_expression(toks, idx) == ExpressionLoop(toks, _term(toks, idx))

\* The while loop of _term.
TermLoop(toks, r) ==
    IF ~r.ok THEN r
    ELSE IF /\ current_token(toks, r.idx) # <<>>
            /\ current_token(toks, r.idx)[2] \in {"MULTIPLY", "DIVIDE"}
    THEN LET token == consume(toks, r.idx, "")
         IN  TermLoop(toks, BinaryNode(token.val, r.val, _factor(toks, token.idx)))
    ELSE r

_term(toks, idx) == TermLoop(toks, _factor(toks, idx))

_factor(toks, idx) ==
    LET token == current_token(toks, idx)
    IN  IF token = <<>> THEN
            PRaise("SyntaxError", <<"Unexpected end of expression">>, idx)
        ELSE IF token[2] = "NUMBER" THEN
            FactorNumber(toks, idx)
        ELSE IF token[2] = "LPAREN" THEN
            CloseParen(toks, _expression(toks, consume(toks, idx, "LPAREN").idx))
        ELSE IF token[2] \in {"PLUS", "MINUS"} THEN
            LET op == consume(toks, idx, "")
            IN  UnaryNode(op.val, _factor(toks, op.idx))
        ELSE PRaise("SyntaxError", <<"Unexpected token: ">> \o token[1], idx)

\* parse(): the cursor is reset (and self.steps emptied, which the callers
\* below record), then _expression runs from 0.
parse(toks) == _expression(toks, 0)

\* The values parse() and the calls below it assign to
\* self.current_token_index, in order: [ok, idx, writes], idx being the
\* cursor and writes the values assigned so far.  A state with ok FALSE is
\* an exception on its way out.
CursorConsume(toks, st, expected_type) ==
    IF ~st.ok THEN st
    ELSE LET c == consume(toks, st.idx, expected_type)
         IN  IF c.ok
             THEN [ok |-> TRUE, idx |-> c.idx, writes |-> Append(st.writes, c.idx)]
             ELSE [ok |-> FALSE, idx |-> c.idx, writes |-> st.writes]

CursorRaise(st) == [ok |-> FALSE, idx |-> st.idx, writes |-> st.writes]

RECURSIVE CursorExpression(_, _)
RECURSIVE CursorTerm(_, _)
RECURSIVE CursorFactor(_, _)
RECURSIVE CursorExpressionLoop(_, _)
RECURSIVE CursorTermLoop(_, _)

CursorExpressionLoop(toks, st) ==
    IF ~st.ok THEN st
    ELSE IF /\ current_token(toks, st.idx) # <<>>
            /\ current_token(toks, st.idx)[2] \in {"PLUS", "MINUS"}
    THEN CursorExpressionLoop(toks, CursorTerm(toks, CursorConsume(toks, st, "")))
    ELSE st

CursorExpression(toks, st) == CursorExpressionLoop(toks, CursorTerm(toks, st))

CursorTermLoop(toks, st) ==
    IF ~st.ok THEN st
    ELSE IF /\ current_token(toks, st.idx) # <<>>
            /\ current_token(toks, st.idx)[2] \in {"MULTIPLY", "DIVIDE"}
    THEN CursorTermLoop(toks, CursorFactor(toks, CursorConsume(toks, st, "")))
    ELSE st

CursorTerm(toks, st) == CursorTermLoop(toks, CursorFactor(toks, st))

CursorFactor(toks, st) ==
    IF ~st.ok THEN st
    ELSE LET token == current_token(toks, st.idx)
         IN  IF token = <<>> THEN CursorRaise(st)
             ELSE IF token[2] = "NUMBER" THEN
                 IF IsNumberText(token[1]) THEN st ELSE CursorRaise(st)
             ELSE IF token[2] = "LPAREN" THEN
                 CursorConsume(toks,
                     CursorExpression(toks, CursorConsume(toks, st, "LPAREN")),
                     "RPAREN")
             ELSE IF token[2] \in {"PLUS", "MINUS"} THEN
                 CursorFactor(toks, CursorConsume(toks, st, ""))
             ELSE CursorRaise(st)

\* parse(): self.current_token_index = 0 is the first assignment.
CursorParse(toks) ==
    CursorExpression(toks, [ok |-> TRUE, idx |-> 0, writes |-> <<0>>])

\* Mutation of BinaryResult: the zero test reads "right_val <= 0".
BinaryResultNonPositive(op, left_val, right_val) ==
    IF op = <<"+">> THEN Ok(FAdd(left_val, right_val))
    ELSE IF op = <<"-">> THEN Ok(FSub(left_val, right_val))
    ELSE IF op = <<"*">> THEN Ok(FMul(left_val, right_val))
    ELSE IF op = <<"/">> THEN
        IF FIsZero(right_val) \/ FIsNeg(right_val)
        THEN Raise("ValueError", <<"Division by zero">>)
        ELSE Ok(FDiv(left_val, right_val))
    ELSE Raise("ValueError", <<"Unknown operator: ">> \o op)

\* The BINARY_OP arithmetic of _evaluate_node.
BinaryResult(op, left_val, right_val) ==
    IF op = <<"+">> THEN Ok(FAdd(left_val, right_val))
    ELSE IF op = <<"-">> THEN Ok(FSub(left_val, right_val))
    ELSE IF op = <<"*">> THEN Ok(FMul(left_val, right_val))
    ELSE IF op = <<"/">> THEN
        IF FIsZero(right_val) THEN Raise("ValueError", <<"Division by zero">>)
        ELSE Ok(FDiv(left_val, right_val))
    ELSE Raise("ValueError", <<"Unknown operator: ">> \o op)

\* The UNARY_OP branch of _evaluate_node once the operand is evaluated.
UnaryResult(op, operand) ==
    IF ~operand.ok THEN operand
    ELSE IF op = <<"+">> THEN operand
    ELSE Ok(FNeg(operand.val))

\* The BINARY_OP branch of _evaluate_node once the operands are evaluated
\* (left first; an exception of an operand propagates).
BinaryEvaluated(op, left_val, right_val) ==
    IF ~left_val.ok THEN left_val
    ELSE IF ~right_val.ok THEN right_val
    ELSE BinaryResult(op, left_val.val, right_val.val)

RECURSIVE _evaluate_node(_)
_evaluate_node(node) ==
    IF node.node_type = "NUMBER" THEN Ok(node.value)
    ELSE IF node.node_type = "UNARY_OP" THEN
        UnaryResult(node.value, _evaluate_node(node.right))
    ELSE IF node.node_type = "BINARY_OP" THEN
        BinaryEvaluated(node.value, _evaluate_node(node.left), _evaluate_node(node.right))
    ELSE Raise("ValueError", <<"Unknown node type">>)

\* A solver call returns its value together with self.steps as it leaves
\* it: [ok, val, steps] or [ok, exc, msg, steps].
SOk(v, steps) == [ok |-> TRUE, val |-> v, steps |-> steps]

SRaise(exc, msg, steps) == [ok |-> FALSE, exc |-> exc, msg |-> msg, steps |-> steps]

\* The BINARY_OP branch of _solve_with_steps once both operands are known.
\* Every value of the model is a float, so the ".1f" branch is the one taken.
BinaryStep(op, left_val, right_val, steps) ==
    LET left_str  == Fmt1f(left_val)
        right_str == Fmt1f(right_val)
        line(result) == left_str \o <<" ">> \o op \o <<" ">> \o right_str
                        \o <<" ", "=", " ">> \o Fmt1f(result)
    IN  IF op = <<"+">> THEN
            SOk(FAdd(left_val, right_val), Append(steps, line(FAdd(left_val, right_val))))
        ELSE IF op = <<"-">> THEN
            SOk(FSub(left_val, right_val), Append(steps, line(FSub(left_val, right_val))))
        ELSE IF op = <<"*">> THEN
            SOk(FMul(left_val, right_val), Append(steps, line(FMul(left_val, right_val))))
        ELSE IF op = <<"/">> THEN
            IF FIsZero(right_val) THEN SRaise("ValueError", <<"Division by zero">>, steps)
            ELSE SOk(FDiv(left_val, right_val), Append(steps, line(FDiv(left_val, right_val))))
        ELSE SRaise("ValueError", <<"Unknown operator: ">> \o op, steps)

\* The UNARY_OP branch of _solve_with_steps once the operand is solved.
UnaryStep(op, operand) ==
    IF ~operand.ok THEN operand
    ELSE SOk(IF op = <<"+">> THEN operand.val ELSE FNeg(operand.val),
             Append(operand.steps,
                    op \o FloatStr(operand.val) \o <<" ", "=", " ">>
                    \o FloatStr(IF op = <<"+">> THEN operand.val
                                ELSE FNeg(operand.val))))

\* The BINARY_OP branch of _solve_with_steps once the right operand is solved.
BinarySolved(op, left_val, right_val) ==
    IF ~right_val.ok THEN right_val
    ELSE BinaryStep(op, left_val, right_val.val, right_val.steps)

RECURSIVE _solve_with_steps(_, _)

\* The BINARY_OP branch of _solve_with_steps once the left operand is solved.
SolveRight(node, left_val) ==
    IF ~left_val.ok THEN left_val
    ELSE BinarySolved(node.value, left_val.val,
                      _solve_with_steps(node.right, left_val.steps))

_solve_with_steps(node, steps) ==
    IF node.node_type = "NUMBER" THEN SOk(node.value, steps)
    ELSE IF node.node_type = "UNARY_OP" THEN
        UnaryStep(node.value, _solve_with_steps(node.right, steps))
    ELSE IF node.node_type = "BINARY_OP" THEN
        SolveRight(node, _solve_with_steps(node.left, steps))
    ELSE SRaise("ValueError", <<"Unknown node type">>, steps)

\* Mutation of _node_to_string: the BINARY_OP format has no parentheses.
RECURSIVE _node_to_string_bare(_)
_node_to_string_bare(node) ==
    IF node.node_type = "NUMBER" THEN FloatStr(node.value)
    ELSE IF node.node_type = "UNARY_OP" THEN
        node.value \o _node_to_string_bare(node.right)
    ELSE IF node.node_type = "BINARY_OP" THEN
        _node_to_string_bare(node.left) \o <<" ">> \o node.value
        \o <<" ">> \o _node_to_string_bare(node.right)
    ELSE <<"?">>

RECURSIVE _node_to_string(_)
_node_to_string(node) ==
    IF node.node_type = "NUMBER" THEN FloatStr(node.value)
    ELSE IF node.node_type = "UNARY_OP" THEN
        node.value \o _node_to_string(node.right)
    ELSE IF node.node_type = "BINARY_OP" THEN
        <<"(">> \o _node_to_string(node.left) \o <<" ">> \o node.value
        \o <<" ">> \o _node_to_string(node.right) \o <<")">>
    ELSE <<"?">>

\* A result with the cursor the call leaves.
WithCursor(r, idx) ==
    IF r.ok THEN POk(r.val, idx) ELSE PRaise(r.exc, r.msg, idx)

\* return self._evaluate_node(node), node being what self.parse() returned.
EvaluateParsed(parsed) ==
    IF ~parsed.ok THEN parsed
    ELSE WithCursor(_evaluate_node(parsed.val), parsed.idx)

\* evaluate(node): node None means "parse first".  Returns the value (or
\* the exception) together with the cursor the call leaves.
evaluate(p, node) ==
    IF node = None THEN EvaluateParsed(parse(p.tokens))
    ELSE WithCursor(_evaluate_node(node), p.current_token_index)

\* return self._node_to_string(node), node being what self.parse() returned.
ToStringParsed(parsed) ==
    IF ~parsed.ok THEN parsed
    ELSE POk(_node_to_string(parsed.val), parsed.idx)

\* to_string(node): node None means "parse first".
to_string(p, node) ==
    IF node = None THEN ToStringParsed(parse(p.tokens))
    ELSE POk(_node_to_string(node), p.current_token_index)

\* self.steps = []; self._solve_with_steps(node); return self.steps
\* r is what _solve_with_steps returned; the result carries the cursor and
\* the steps buffer the call leaves on the analyzer.
SolveReturn(r, idx) ==
    IF r.ok
    THEN [ok |-> TRUE, val |-> r.steps, idx |-> idx, steps |-> r.steps]
    ELSE [ok |-> FALSE, exc |-> r.exc, msg |-> r.msg, idx |-> idx, steps |-> r.steps]

\* node = self.parse(), which has emptied self.steps, then the solver.
SolveParsed(parsed) ==
    IF ~parsed.ok
    THEN [ok |-> FALSE, exc |-> parsed.exc, msg |-> parsed.msg,
          idx |-> parsed.idx, steps |-> <<>>]
    ELSE SolveReturn(_solve_with_steps(parsed.val, <<>>), parsed.idx)

\* solve_step_by_step(node): node None means "parse first".
solve_step_by_step(p, node) ==
    IF node = None THEN SolveParsed(parse(p.tokens))
    ELSE SolveReturn(_solve_with_steps(node, <<>>), p.current_token_index)

\* Attribute lookup of a method on a SyntacticAnalyzer instance.
GetMethod(name) ==
    IF name \in SyntacticAnalyzerMethods THEN Ok(name)
    ELSE Raise("AttributeError",
               <<"'SyntacticAnalyzer' object has no attribute '", name, "'">>)

(***************************************************************************)
(* State.                                                                  *)
(***************************************************************************)
VARIABLES
    pc,                     \* position of the caller
    corrected_expression,   \* app.py: output of the NLP corrector
    tokens,                 \* the token list of the request
    valid,                  \* result of validate_tokens, or None
    parser,                 \* the SyntacticAnalyzer instance, or None
    ast_root,               \* the AST held by the caller, or None
    final_result,           \* result of evaluate, or None
    steps,                  \* result of the stepwise solver, or None
    normalized_expression,  \* result of to_string, or None
    roundtrip,              \* result of re-reading to_string(ast), or None
    outcome,                \* what the pipeline raised, or None
    trace                   \* the stages executed so far, in order

vars == <<pc, corrected_expression, tokens, valid, parser, ast_root,
          final_result, steps, normalized_expression, roundtrip, outcome, trace>>

Last(s) == s[Len(s)]

(***************************************************************************)
(* Inputs.                                                                 *)
(***************************************************************************)
\* Characters of the corrected expressions handed to the pipeline.
Alphabet == {"2", "+", "-", "/", "(", ")", ".", " ", "a"}

\* Longer expressions: the test expressions and numbers with two dots.
LongExpressions ==
    {<<"1", "2", "+", "(", "5", "*", "4", ")", "-", "1">>,
     <<"3", ".", "1", "4", "*", "2", "+", "7", "/", "2">>,
     <<"2", ".", "2", ".", "2">>,
     <<"2", "2", ".", "0", "2", " ", " ", "2", "a">>,
     <<"2", "2", ".", "0", "2", " ", " ", "2", "2", "-", "2">>}

Expressions == UNION {[1..n -> Alphabet] : n \in 0..MaxChars} \cup LongExpressions

\* Tokens of the token sequences handed to validate_tokens and the parser.
TokenUniverse ==
    {<<<<"0">>, "NUMBER">>, <<<<"2">>, "NUMBER">>,
     <<<<"+">>, "PLUS">>, <<<<"-">>, "MINUS">>,
     <<<<"*">>, "MULTIPLY">>, <<<<"/">>, "DIVIDE">>,
     <<<<"(">>, "LPAREN">>, <<<<")">>, "RPAREN">>}

\* The expressions of test_pipeline.py (test_tokenizer, test_parser).
TestExpressions ==
    {<<"1", "2", "+", "(", "5", "*", "4", ")", "-", "1">>,
     <<"3", ".", "1", "4", "*", "2", "+", "7", "/", "2">>,
     <<"8", "-", "4", "/", "2", "+", "1">>,
     <<"(", "1", "0", "+", "2", ")", "*", "3", "-", "5">>,
     <<"2", "+", "3", "*", "4">>}

TokenSeqs ==
    UNION {[1..n -> TokenUniverse] : n \in 0..MaxTokens}
    \cup {tokenize(e).val : e \in TestExpressions}

\* Values of the NUMBER leaves of the ASTs handed to the analyzer.
LeafValues == {0, 2}

RECURSIVE TreesOfSize(_)
TreesOfSize(k) ==
    IF k = 1 THEN
        {ASTNode(FloatOfInt(v), None, None, "NUMBER") : v \in LeafValues}
    ELSE
        {ASTNode(<<o>>, None, t, "UNARY_OP") :
            o \in {"+", "-"}, t \in TreesOfSize(k - 1)}
        \cup UNION {
            {ASTNode(<<o>>, a, b, "BINARY_OP") :
                o \in {"+", "-", "*", "/"},
                a \in TreesOfSize(l), b \in TreesOfSize(k - 1 - l)}
            : l \in 1..(k - 2)}

WellFormedASTs == UNION {TreesOfSize(k) : k \in 1..MaxNodes}

\* The result of a call as the caller sees it (value or exception).
Result(r) == IF r.ok THEN Ok(r.val) ELSE Raise(r.exc, r.msg)

(***************************************************************************)
(* app.py: process_raw_expression_pipeline, one request.                   *)
(***************************************************************************)
NlpTag == "Correção NLP falhou: "

LexicalTag == "Análise Léxica falhou: "

SyntacticTag == "Análise Sintática falhou: "

\* Mutation of Wrapped: the exception is re-raised without the tag.
WrappedUntagged(tag, e) == Raise("ValueError", e.msg)

\* raise ValueError(f"<tag>{e}")
Wrapped(tag, e) == Raise("ValueError", <<tag>> \o e.msg)

PipelineInit ==
    /\ pc = "nlp"
    /\ corrected_expression = None
    /\ tokens = <<>>
    /\ valid = None
    /\ parser = None
    /\ ast_root = None
    /\ final_result = None
    /\ steps = None
    /\ normalized_expression = None
    /\ roundtrip = None
    /\ outcome = None
    /\ trace = <<>>

\* nlp_corrector.correct_expression(raw_expression): an external
\* collaborator; it yields some corrected expression or raises.
PipelineNlp ==
    /\ pc = "nlp"
    /\ trace' = Append(trace, "correct_expression")
    /\ \/ \E e \in Expressions :
            /\ corrected_expression' = Ok(e)
            /\ pc' = "tokenize"
            /\ outcome' = outcome
       \/ /\ outcome' = Wrapped(NlpTag, Raise("Exception", <<"correct_expression">>))
          /\ pc' = "raised"
          /\ corrected_expression' = corrected_expression
    /\ UNCHANGED <<tokens, valid, parser, ast_root, final_result, steps,
                   normalized_expression, roundtrip>>

PipelineTokenize ==
    /\ pc = "tokenize"
    /\ trace' = Append(trace, "tokenize")
    /\ LET r == tokenize(corrected_expression.val)
       IN  IF r.ok
           THEN /\ tokens' = r.val
                /\ pc' = "validate"
                /\ outcome' = outcome
           ELSE /\ outcome' = Wrapped(LexicalTag, r)
                /\ pc' = "raised"
                /\ tokens' = tokens
    /\ UNCHANGED <<corrected_expression, valid, parser, ast_root, final_result,
                   steps, normalized_expression, roundtrip>>

\* Mutation of PipelineValidate: the result of validate_tokens is ignored.
PipelineValidateUnguarded ==
    /\ pc = "validate"
    /\ trace' = Append(trace, "validate_tokens")
    /\ valid' = Ok(validate_tokens(tokens))
    /\ pc' = "construct"
    /\ UNCHANGED <<corrected_expression, tokens, parser, ast_root, final_result,
                   steps, normalized_expression, roundtrip, outcome>>

PipelineValidate ==
    /\ pc = "validate"
    /\ trace' = Append(trace, "validate_tokens")
    /\ valid' = Ok(validate_tokens(tokens))
    /\ IF validate_tokens(tokens)
       THEN /\ pc' = "construct"
            /\ outcome' = outcome
       ELSE /\ outcome' = Wrapped(LexicalTag,
                    Raise("ValueError", <<"Sequência inválida de tokens na expressão">>))
            /\ pc' = "raised"
    /\ UNCHANGED <<corrected_expression, tokens, parser, ast_root, final_result,
                   steps, normalized_expression, roundtrip>>

PipelineConstruct ==
    /\ pc = "construct"
    /\ trace' = Append(trace, "SyntacticAnalyzer")
    /\ parser' = SyntacticAnalyzer(tokens)
    /\ pc' = "parse"
    /\ UNCHANGED <<corrected_expression, tokens, valid, ast_root, final_result,
                   steps, normalized_expression, roundtrip, outcome>>

PipelineParse ==
    /\ pc = "parse"
    /\ trace' = Append(trace, "parse")
    /\ LET r == parse(parser.tokens)
       IN  /\ parser' = [parser EXCEPT !.current_token_index = r.idx, !.steps = <<>>]
           /\ IF r.ok
              THEN /\ ast_root' = r.val
                   /\ pc' = "evaluate"
                   /\ outcome' = outcome
              ELSE /\ outcome' = Wrapped(SyntacticTag, r)
                   /\ pc' = "raised"
                   /\ ast_root' = ast_root
    /\ UNCHANGED <<corrected_expression, tokens, valid, final_result, steps,
                   normalized_expression, roundtrip>>

PipelineEvaluate ==
    /\ pc = "evaluate"
    /\ trace' = Append(trace, "evaluate")
    /\ LET r == evaluate(parser, ast_root)
       IN  IF r.ok
           THEN /\ final_result' = Ok(r.val)
                /\ pc' = "solve"
                /\ outcome' = outcome
           ELSE /\ outcome' = Wrapped(SyntacticTag, r)
                /\ pc' = "raised"
                /\ final_result' = final_result
    /\ UNCHANGED <<corrected_expression, tokens, valid, parser, ast_root, steps,
                   normalized_expression, roundtrip>>

\* steps = parser.solve_by_substitution(): the class has no such method,
\* so the attribute lookup raises and the statements after it (to_string,
\* the return of the success dictionary) are never reached.
PipelineSolve ==
    /\ pc = "solve"
    /\ ~GetMethod("solve_by_substitution").ok
    /\ trace' = Append(trace, "solve_by_substitution")
    /\ outcome' = Wrapped(SyntacticTag, GetMethod("solve_by_substitution"))
    /\ pc' = "raised"
    /\ UNCHANGED <<corrected_expression, tokens, valid, parser, ast_root,
                   final_result, steps, normalized_expression, roundtrip>>

Next ==
    \/ PipelineNlp
    \/ PipelineTokenize
    \/ PipelineValidate
    \/ PipelineConstruct
    \/ PipelineParse
    \/ PipelineEvaluate
    \/ PipelineSolve

Spec == PipelineInit /\ [][Next]_vars

(***************************************************************************)
(* A caller of the two analyzers on a token sequence, as test_parser and   *)
(* test_tokenizer use them: validate_tokens, then parse / evaluate /       *)
(* solve_step_by_step / to_string on one SyntacticAnalyzer.  A call that   *)
(* raises ends the run (the tests' except clause).                         *)
(***************************************************************************)
TokensInit ==
    /\ pc = "start"
    /\ corrected_expression = None
    /\ tokens \in TokenSeqs
    /\ valid = None
    /\ parser = SyntacticAnalyzer(tokens)
    /\ ast_root = None
    /\ final_result = None
    /\ steps = None
    /\ normalized_expression = None
    /\ roundtrip = None
    /\ outcome = None
    /\ trace = <<>>

ValidateTokens ==
    /\ pc = "start"
    /\ valid' = Ok(validate_tokens(tokens))
    /\ pc' = "validated"
    /\ trace' = Append(trace, "validate_tokens")
    /\ UNCHANGED <<corrected_expression, tokens, parser, ast_root, final_result,
                   steps, normalized_expression, roundtrip, outcome>>

Parse ==
    /\ pc = "validated"
    /\ trace' = Append(trace, "parse")
    /\ LET r == parse(parser.tokens)
       IN  /\ parser' = [parser EXCEPT !.current_token_index = r.idx, !.steps = <<>>]
           /\ IF r.ok
              THEN /\ ast_root' = r.val
                   /\ pc' = "parsed"
                   /\ outcome' = outcome
              ELSE /\ outcome' = Result(r)
                   /\ pc' = "raised"
                   /\ ast_root' = ast_root
    /\ UNCHANGED <<corrected_expression, tokens, valid, final_result, steps,
                   normalized_expression, roundtrip>>

\* parser.evaluate(ast_root), or parser.evaluate() when nothing was parsed.
Evaluate ==
    /\ pc \in {"validated", "parsed"}
    /\ trace' = Append(trace, "evaluate")
    /\ LET r == evaluate(parser, ast_root)
       IN  /\ parser' = [parser EXCEPT !.current_token_index = r.idx,
                                       !.steps = IF ast_root = None THEN <<>> ELSE @]
           /\ IF r.ok
              THEN /\ final_result' = Ok(r.val)
                   /\ pc' = "evaluated"
                   /\ outcome' = outcome
              ELSE /\ outcome' = Result(r)
                   /\ pc' = "raised"
                   /\ final_result' = final_result
    /\ UNCHANGED <<corrected_expression, tokens, valid, ast_root, steps,
                   normalized_expression, roundtrip>>

SolveStepByStep ==
    /\ pc = "evaluated"
    /\ trace' = Append(trace, "solve_step_by_step")
    /\ LET r == solve_step_by_step(parser, ast_root)
       IN  /\ parser' = [parser EXCEPT !.current_token_index = r.idx,
                                       !.steps = r.steps]
           /\ IF r.ok
              THEN /\ steps' = Ok(r.val)
                   /\ pc' = "solved"
                   /\ outcome' = outcome
              ELSE /\ outcome' = Result(r)
                   /\ pc' = "raised"
                   /\ steps' = steps
    /\ UNCHANGED <<corrected_expression, tokens, valid, ast_root, final_result,
                   normalized_expression, roundtrip>>

ToString ==
    /\ pc = "solved"
    /\ trace' = Append(trace, "to_string")
    /\ LET r == to_string(parser, ast_root)
       IN  /\ parser' = [parser EXCEPT !.current_token_index = r.idx,
                                       !.steps = IF ast_root = None THEN <<>> ELSE @]
           /\ IF r.ok
              THEN /\ normalized_expression' = Ok(r.val)
                   /\ pc' = "printed"
                   /\ outcome' = outcome
              ELSE /\ outcome' = Result(r)
                   /\ pc' = "raised"
                   /\ normalized_expression' = normalized_expression
    /\ UNCHANGED <<corrected_expression, tokens, valid, ast_root, final_result,
                   steps, roundtrip>>

TokensNext ==
    \/ ValidateTokens
    \/ Parse
    \/ Evaluate
    \/ SolveStepByStep
    \/ ToString

SpecTokens == TokensInit /\ [][TokensNext]_vars

(***************************************************************************)
(* A caller holding an AST (ASTNode is a public dataclass) and calling     *)
(* evaluate / solve_step_by_step / to_string on it, in any order and any   *)
(* number of times, and re-reading the printed form.                       *)
(***************************************************************************)
\* evaluate(parse(tokenize(to_string(node)))) as the caller sees it.
RoundTrip(node) ==
    LET printed == _node_to_string(node)
        lexed   == tokenize(printed)
    IN  IF ~lexed.ok THEN lexed
        ELSE LET reparsed == parse(lexed.val)
             IN  IF ~reparsed.ok THEN Result(reparsed)
                 ELSE _evaluate_node(reparsed.val)

AstInit ==
    /\ pc = "ast"
    /\ corrected_expression = None
    /\ tokens = <<>>
    /\ valid = None
    /\ parser = SyntacticAnalyzer(<<>>)
    /\ ast_root \in WellFormedASTs
    /\ final_result = None
    /\ steps = None
    /\ normalized_expression = None
    /\ roundtrip = None
    /\ outcome = None
    /\ trace = <<>>

AstEvaluate ==
    /\ pc = "ast"
    /\ final_result' = Result(evaluate(parser, ast_root))
    /\ UNCHANGED <<pc, corrected_expression, tokens, valid, parser, ast_root,
                   steps, normalized_expression, roundtrip, outcome, trace>>

\* Mutation of AstSolveStepByStep: the solver reduces the tree it is given
\* in place, leaving a NUMBER leaf that holds the result.
AstSolveStepByStepInPlace ==
    /\ pc = "ast"
    /\ LET r == solve_step_by_step(parser, ast_root)
       IN  /\ steps' = Result(r)
           /\ parser' = [parser EXCEPT !.steps = r.steps]
           /\ ast_root' = IF _evaluate_node(ast_root).ok
                          THEN ASTNode(_evaluate_node(ast_root).val, None, None, "NUMBER")
                          ELSE ast_root
    /\ UNCHANGED <<pc, corrected_expression, tokens, valid,
                   final_result, normalized_expression, roundtrip, outcome, trace>>

AstSolveStepByStep ==
    /\ pc = "ast"
    /\ LET r == solve_step_by_step(parser, ast_root)
       IN  /\ steps' = Result(r)
           /\ parser' = [parser EXCEPT !.steps = r.steps]
    /\ UNCHANGED <<pc, corrected_expression, tokens, valid, ast_root,
                   final_result, normalized_expression, roundtrip, outcome, trace>>

AstToString ==
    /\ pc = "ast"
    /\ normalized_expression' = Result(to_string(parser, ast_root))
    /\ UNCHANGED <<pc, corrected_expression, tokens, valid, parser, ast_root,
                   final_result, steps, roundtrip, outcome, trace>>

AstRoundTrip ==
    /\ pc = "ast"
    /\ roundtrip' = RoundTrip(ast_root)
    /\ UNCHANGED <<pc, corrected_expression, tokens, valid, parser, ast_root,
                   final_result, steps, normalized_expression, outcome, trace>>

AstNext ==
    \/ AstEvaluate
    \/ AstSolveStepByStep
    \/ AstToString
    \/ AstRoundTrip

SpecAst == AstInit /\ [][AstNext]_vars

(***************************************************************************)
(* A caller of the cursor methods of one SyntacticAnalyzer: current_token, *)
(* peek, consume and parse, in any order.  pc names the last call, outcome *)
(* holds what it returned or raised, and after a parse call trace holds    *)
(* the cursor at its entry followed by the values the call assigned to it. *)
(***************************************************************************)
CursorTokenSeqs == UNION {[1..n -> TokenUniverse] : n \in 0..MaxCursorTokens}

CursorInit ==
    /\ pc = "new"
    /\ corrected_expression = None
    /\ tokens \in CursorTokenSeqs
    /\ valid = None
    /\ parser = SyntacticAnalyzer(tokens)
    /\ ast_root = None
    /\ final_result = None
    /\ steps = None
    /\ normalized_expression = None
    /\ roundtrip = None
    /\ outcome = None
    /\ trace = <<>>

CallCurrentToken ==
    /\ pc' = "current_token"
    /\ outcome' = Ok(current_token(parser.tokens, parser.current_token_index))
    /\ trace' = <<>>
    /\ UNCHANGED <<corrected_expression, tokens, valid, parser, ast_root,
                   final_result, steps, normalized_expression, roundtrip>>

CallPeek ==
    /\ pc' = "peek"
    /\ outcome' = Ok(peek(parser.tokens, parser.current_token_index))
    /\ trace' = <<>>
    /\ UNCHANGED <<corrected_expression, tokens, valid, parser, ast_root,
                   final_result, steps, normalized_expression, roundtrip>>

CallConsume ==
    /\ pc' = "consume"
    /\ \E expected_type \in {"", "NUMBER", "LPAREN", "RPAREN"} :
          LET c == consume(parser.tokens, parser.current_token_index, expected_type)
          IN  /\ parser' = [parser EXCEPT !.current_token_index = c.idx]
              /\ outcome' = Result(c)
    /\ trace' = <<>>
    /\ UNCHANGED <<corrected_expression, tokens, valid, ast_root,
                   final_result, steps, normalized_expression, roundtrip>>

CallParse ==
    /\ pc' = "parse"
    /\ LET r == parse(parser.tokens)
       IN  /\ parser' = [parser EXCEPT !.current_token_index = r.idx, !.steps = <<>>]
           /\ outcome' = Result(r)
    /\ trace' = <<parser.current_token_index>> \o CursorParse(parser.tokens).writes
    /\ UNCHANGED <<corrected_expression, tokens, valid, ast_root,
                   final_result, steps, normalized_expression, roundtrip>>

CursorNext ==
    \/ CallCurrentToken
    \/ CallPeek
    \/ CallConsume
    \/ CallParse

SpecCursor == CursorInit /\ [][CursorNext]_vars

(***************************************************************************)
(* app.py under concurrent requests: each request runs                     *)
(* process_raw_expression_pipeline in its own frame, so every variable     *)
(* that is a local of that function is a function of the request here.     *)
(* The module-level lexical_analyzer is the one object all requests call;  *)
(* it has no field that tokenize or validate_tokens assigns.  parser holds *)
(* the SyntacticAnalyzer objects allocated so far (heap) and, for each     *)
(* request, which of them its local "parser" refers to (of; 0 is unbound). *)
(* One step is one statement of the pipeline, run by one request.          *)
(***************************************************************************)
Requests == 1..MaxRequests

RequestExpressions ==
    {<<"2">>, <<"-", "2">>, <<"(", "2", ")">>, <<"-", "-", "2">>,
     <<"2", "a">>, <<"2", " ", "2">>}

\* The analyzer object a request's local "parser" refers to.
Analyzer(r) == parser.heap[parser.of[r]]

RequestsInit ==
    /\ pc = [r \in Requests |-> "nlp"]
    /\ corrected_expression = [r \in Requests |-> None]
    /\ tokens = [r \in Requests |-> <<>>]
    /\ valid = [r \in Requests |-> None]
    /\ parser = [heap |-> <<>>, of |-> [r \in Requests |-> 0]]
    /\ ast_root = [r \in Requests |-> None]
    /\ final_result = [r \in Requests |-> None]
    /\ steps = None
    /\ normalized_expression = None
    /\ roundtrip = None
    /\ outcome = [r \in Requests |-> None]
    /\ trace = <<>>

RequestNlp(r) ==
    /\ pc[r] = "nlp"
    /\ \/ \E e \in RequestExpressions :
            /\ corrected_expression' = [corrected_expression EXCEPT ![r] = Ok(e)]
            /\ pc' = [pc EXCEPT ![r] = "tokenize"]
            /\ outcome' = outcome
       \/ /\ outcome' = [outcome EXCEPT ![r] =
                 Wrapped(NlpTag, Raise("Exception", <<"correct_expression">>))]
          /\ pc' = [pc EXCEPT ![r] = "raised"]
          /\ corrected_expression' = corrected_expression
    /\ UNCHANGED <<tokens, valid, parser, ast_root, final_result, steps,
                   normalized_expression, roundtrip, trace>>

RequestTokenize(r) ==
    /\ pc[r] = "tokenize"
    /\ LET t == tokenize(corrected_expression[r].val)
       IN  IF t.ok
           THEN /\ tokens' = [tokens EXCEPT ![r] = t.val]
                /\ pc' = [pc EXCEPT ![r] = "validate"]
                /\ outcome' = outcome
           ELSE /\ outcome' = [outcome EXCEPT ![r] = Wrapped(LexicalTag, t)]
                /\ pc' = [pc EXCEPT ![r] = "raised"]
                /\ tokens' = tokens
    /\ UNCHANGED <<corrected_expression, valid, parser, ast_root, final_result,
                   steps, normalized_expression, roundtrip, trace>>

RequestValidate(r) ==
    /\ pc[r] = "validate"
    /\ valid' = [valid EXCEPT ![r] = Ok(validate_tokens(tokens[r]))]
    /\ IF validate_tokens(tokens[r])
       THEN /\ pc' = [pc EXCEPT ![r] = "construct"]
            /\ outcome' = outcome
       ELSE /\ outcome' = [outcome EXCEPT ![r] = Wrapped(LexicalTag,
                    Raise("ValueError", <<"Sequência inválida de tokens na expressão">>))]
            /\ pc' = [pc EXCEPT ![r] = "raised"]
    /\ UNCHANGED <<corrected_expression, tokens, parser, ast_root, final_result,
                   steps, normalized_expression, roundtrip, trace>>

\* Mutation of RequestConstruct: one module-level analyzer object serves
\* every request, and a request re-initialises it with its own tokens.
RequestConstructShared(r) ==
    /\ pc[r] = "construct"
    /\ parser' = [heap |-> <<SyntacticAnalyzer(tokens[r])>>,
                  of   |-> [parser.of EXCEPT ![r] = 1]]
    /\ pc' = [pc EXCEPT ![r] = "parse"]
    /\ UNCHANGED <<corrected_expression, tokens, valid, ast_root, final_result,
                   steps, normalized_expression, roundtrip, outcome, trace>>

\* parser = SyntacticAnalyzer(tokens): a new object, bound to the local.
RequestConstruct(r) ==
    /\ pc[r] = "construct"
    /\ parser' = [heap |-> Append(parser.heap, SyntacticAnalyzer(tokens[r])),
                  of   |-> [parser.of EXCEPT ![r] = Len(parser.heap) + 1]]
    /\ pc' = [pc EXCEPT ![r] = "parse"]
    /\ UNCHANGED <<corrected_expression, tokens, valid, ast_root, final_result,
                   steps, normalized_expression, roundtrip, outcome, trace>>

RequestParse(r) ==
    /\ pc[r] = "parse"
    /\ LET p == parse(Analyzer(r).tokens)
       IN  /\ parser' = [parser EXCEPT !.heap[parser.of[r]] =
                             [@ EXCEPT !.current_token_index = p.idx, !.steps = <<>>]]
           /\ IF p.ok
              THEN /\ ast_root' = [ast_root EXCEPT ![r] = p.val]
                   /\ pc' = [pc EXCEPT ![r] = "evaluate"]
                   /\ outcome' = outcome
              ELSE /\ outcome' = [outcome EXCEPT ![r] = Wrapped(SyntacticTag, p)]
                   /\ pc' = [pc EXCEPT ![r] = "raised"]
                   /\ ast_root' = ast_root
    /\ UNCHANGED <<corrected_expression, tokens, valid, final_result, steps,
                   normalized_expression, roundtrip, trace>>

RequestEvaluate(r) ==
    /\ pc[r] = "evaluate"
    /\ LET v == evaluate(Analyzer(r), ast_root[r])
       IN  /\ parser' = [parser EXCEPT !.heap[parser.of[r]] =
                             [@ EXCEPT !.current_token_index = v.idx]]
           /\ IF v.ok
              THEN /\ final_result' = [final_result EXCEPT ![r] = Ok(v.val)]
                   /\ pc' = [pc EXCEPT ![r] = "solve"]
                   /\ outcome' = outcome
              ELSE /\ outcome' = [outcome EXCEPT ![r] = Wrapped(SyntacticTag, v)]
                   /\ pc' = [pc EXCEPT ![r] = "raised"]
                   /\ final_result' = final_result
    /\ UNCHANGED <<corrected_expression, tokens, valid, ast_root, steps,
                   normalized_expression, roundtrip, trace>>

\* steps = parser.solve_by_substitution(): the attribute lookup raises.
RequestSolve(r) ==
    /\ pc[r] = "solve"
    /\ ~GetMethod("solve_by_substitution").ok
    /\ outcome' = [outcome EXCEPT ![r] =
           Wrapped(SyntacticTag, GetMethod("solve_by_substitution"))]
    /\ pc' = [pc EXCEPT ![r] = "raised"]
    /\ UNCHANGED <<corrected_expression, tokens, valid, parser, ast_root,
                   final_result, steps, normalized_expression, roundtrip, trace>>

RequestsNext ==
    \E r \in Requests :
        \/ RequestNlp(r)
        \/ RequestTokenize(r)
        \/ RequestValidate(r)
        \/ RequestConstruct(r)
        \/ RequestParse(r)
        \/ RequestEvaluate(r)
        \/ RequestSolve(r)

SpecRequests == RequestsInit /\ [][RequestsNext]_vars

(***************************************************************************)
(* formatter.py: FormatConverter, and format_math of app.py.  A formatted  *)
(* string is a sequence of pieces: single characters, and the markup       *)
(* pieces ("<mn>", "\\times", ...) the code writes as a whole.             *)
(***************************************************************************)
\* re.sub(r"\s+", "", expression)
RECURSIVE RemoveWhitespace(_)
RemoveWhitespace(expression) ==
    IF expression = <<>> THEN <<>>
    ELSE (IF expression[1] \in Whitespace THEN <<>> ELSE <<expression[1]>>)
         \o RemoveWhitespace(Tail(expression))

\* The for loop of _tokenize_expression and the statements after it.
RECURSIVE TokenizeExpressionLoop(_, _, _)
TokenizeExpressionLoop(expression, toks, current_number) ==
    IF expression = <<>> THEN
        IF current_number # <<>> THEN Append(toks, current_number) ELSE toks
    ELSE IF expression[1] \in {"+", "-", "*", "/", "(", ")"} THEN
        TokenizeExpressionLoop(Tail(expression),
            (IF current_number # <<>> THEN Append(toks, current_number) ELSE toks)
            \o <<<<expression[1]>>>>,
            <<>>)
    ELSE TokenizeExpressionLoop(Tail(expression), toks,
                                Append(current_number, expression[1]))

_tokenize_expression(expression) ==
    TokenizeExpressionLoop(RemoveWhitespace(expression), <<>>, <<>>)

\* token.split(".")
RECURSIVE Split(_, _)
Split(token, part) ==
    IF token = <<>> THEN <<part>>
    ELSE IF token[1] = "." THEN <<part>> \o Split(Tail(token), <<>>)
    ELSE Split(Tail(token), Append(part, token[1]))

\* token.replace(".", "{,}")
RECURSIVE ReplaceDots(_)
ReplaceDots(token) ==
    IF token = <<>> THEN <<>>
    ELSE (IF token[1] = "." THEN <<"{,}">> ELSE <<token[1]>>)
         \o ReplaceDots(Tail(token))

\* str.strip()
RECURSIVE Strip(_)
Strip(str) ==
    IF str = <<>> THEN <<>>
    ELSE IF str[1] \in Whitespace THEN Strip(Tail(str))
    ELSE IF str[Len(str)] \in Whitespace THEN Strip(SubSeq(str, 1, Len(str) - 1))
    ELSE str

\* What the loop of to_latex appends for one token.
LatexPart(token) ==
    IF token \in {<<"+">>, <<"-">>} THEN <<" ">> \o token \o <<" ">>
    ELSE IF token = <<"*">> THEN <<" ", "\\times", " ">>
    ELSE IF token = <<"/">> THEN <<" ", "\\div", " ">>
    ELSE IF token = <<"(">> THEN <<"\\left(">>
    ELSE IF token = <<")">> THEN <<"\\right)">>
    ELSE ReplaceDots(token)

RECURSIVE LatexParts(_)
LatexParts(toks) ==
    IF toks = <<>> THEN <<>> ELSE LatexPart(toks[1]) \o LatexParts(Tail(toks))

to_latex(expression) ==
    Ok(<<"$">> \o Strip(LatexParts(_tokenize_expression(expression))) \o <<"$">>)

\* What the loop of to_mathml appends for a token with a '.': the unpacking
\* of token.split(".") into two names raises unless there are two parts.
MathmlNumber(token) ==
    LET parts == Split(token, <<>>)
    IN  IF Len(parts) # 2
        THEN Raise("ValueError", <<"too many values to unpack (expected 2)">>)
        ELSE Ok(<<"<mn>">> \o parts[1] \o <<"</mn>">>
                \o <<"<mo>", ".", "</mo>">>
                \o <<"<mn>">> \o parts[2] \o <<"</mn>">>)

\* What the loop of to_mathml appends for one token.
MathmlPart(token) ==
    IF token = <<"+">> THEN Ok(<<"<mo>", "+", "</mo>">>)
    ELSE IF token = <<"-">> THEN Ok(<<"<mo>", "-", "</mo>">>)
    ELSE IF token = <<"*">> THEN Ok(<<"<mo>", "×", "</mo>">>)
    ELSE IF token = <<"/">> THEN Ok(<<"<mo>", "÷", "</mo>">>)
    ELSE IF token = <<"(">> THEN Ok(<<"<mo>", "(", "</mo>">>)
    ELSE IF token = <<")">> THEN Ok(<<"<mo>", ")", "</mo>">>)
    ELSE IF \E i \in 1..Len(token) : token[i] = "." THEN MathmlNumber(token)
    ELSE Ok(<<"<mn>">> \o token \o <<"</mn>">>)

RECURSIVE MathmlParts(_, _)

\* The loop of to_mathml once the part of the first token is known.
MathmlAppend(toks, parts, part) ==
    IF ~part.ok THEN part ELSE MathmlParts(Tail(toks), parts \o part.val)

MathmlParts(toks, parts) ==
    IF toks = <<>> THEN Ok(parts \o <<"</mrow></math>">>)
    ELSE MathmlAppend(toks, parts, MathmlPart(toks[1]))

to_mathml(expression) ==
    MathmlParts(_tokenize_expression(expression), <<"<math><mrow>">>)

\* The try block of format_math, then its bare except.  expr is a str here,
\* so str(expr) is expr.
FormatMathReturn(expr, r) == IF r.ok THEN r ELSE Ok(expr)

format_math(expr, format) ==
    IF format = "latex" THEN FormatMathReturn(expr, to_latex(expr))
    ELSE IF format = "mathml" THEN FormatMathReturn(expr, to_mathml(expr))
    ELSE Ok(expr)

\* Characters of the strings handed to the formatter.
FormatAlphabet == {"2", ".", "+", "*", "(", " "}

FormatExpressions ==
    UNION {[1..n -> FormatAlphabet] : n \in 0..MaxChars} \cup LongExpressions

\* A caller of the formatter on a string: to_mathml, to_latex and
\* format_math, in any order; outcome holds what the last call returned or
\* raised and pc names that call.
FormatInit ==
    /\ pc = "format"
    /\ corrected_expression = None
    /\ tokens = <<>>
    /\ valid = None
    /\ parser = None
    /\ ast_root = None
    /\ final_result = None
    /\ steps = None
    /\ normalized_expression \in {Ok(e) : e \in FormatExpressions}
    /\ roundtrip = None
    /\ outcome = None
    /\ trace = <<>>

FormatToMathml ==
    /\ pc \in {"format", "to_mathml", "to_latex", "format_math"}
    /\ pc' = "to_mathml"
    /\ outcome' = to_mathml(normalized_expression.val)
    /\ UNCHANGED <<corrected_expression, tokens, valid, parser, ast_root,
                   final_result, steps, normalized_expression, roundtrip, trace>>

FormatToLatex ==
    /\ pc \in {"format", "to_mathml", "to_latex", "format_math"}
    /\ pc' = "to_latex"
    /\ outcome' = to_latex(normalized_expression.val)
    /\ UNCHANGED <<corrected_expression, tokens, valid, parser, ast_root,
                   final_result, steps, normalized_expression, roundtrip, trace>>

FormatMath ==
    /\ pc \in {"format", "to_mathml", "to_latex", "format_math"}
    /\ pc' = "format_math"
    /\ \E format \in {"latex", "mathml", "plain"} :
          outcome' = format_math(normalized_expression.val, format)
    /\ UNCHANGED <<corrected_expression, tokens, valid, parser, ast_root,
                   final_result, steps, normalized_expression, roundtrip, trace>>

FormatNext ==
    \/ FormatToMathml
    \/ FormatToLatex
    \/ FormatMath

SpecFormat == FormatInit /\ [][FormatNext]_vars

(***************************************************************************)
(* Properties.                                                             *)
(***************************************************************************)
IsDivisionByZero(r) == ~r.ok /\ r.exc = "ValueError" /\ r.msg = <<"Division by zero">>

\* Hand evaluation of a token sequence: the grammar of the documentation,
\* '*' and '/' above '+' and '-', equal precedence folded left to right,
\* every token read once.  [ok, val, idx].
RECURSIVE HandExpression(_, _)
RECURSIVE HandTerm(_, _)
RECURSIVE HandFactor(_, _)
RECURSIVE HandExpressionRest(_, _, _)
RECURSIVE HandTermRest(_, _, _)

HandFail == [ok |-> FALSE]

HandExpressionRest(toks, acc, idx) ==
    IF idx < Len(toks) /\ toks[idx + 1][2] \in {"PLUS", "MINUS"} THEN
        LET right == HandTerm(toks, idx + 1)
        IN  IF ~right.ok THEN HandFail
            ELSE HandExpressionRest(toks,
                    IF toks[idx + 1][2] = "PLUS" THEN FAdd(acc, right.val)
                    ELSE FSub(acc, right.val),
                    right.idx)
    ELSE POk(acc, idx)

HandExpression(toks, idx) ==
    LET left == HandTerm(toks, idx)
    IN  IF ~left.ok THEN HandFail ELSE HandExpressionRest(toks, left.val, left.idx)

HandTermRest(toks, acc, idx) ==
    IF idx < Len(toks) /\ toks[idx + 1][2] \in {"MULTIPLY", "DIVIDE"} THEN
        LET right == HandFactor(toks, idx + 1)
        IN  IF ~right.ok THEN HandFail
            ELSE IF toks[idx + 1][2] = "MULTIPLY"
                 THEN HandTermRest(toks, FMul(acc, right.val), right.idx)
            ELSE IF FIsZero(right.val) THEN HandFail
            ELSE HandTermRest(toks, FDiv(acc, right.val), right.idx)
    ELSE POk(acc, idx)

HandTerm(toks, idx) ==
    LET left == HandFactor(toks, idx)
    IN  IF ~left.ok THEN HandFail ELSE HandTermRest(toks, left.val, left.idx)

HandFactor(toks, idx) ==
    IF idx >= Len(toks) THEN HandFail
    ELSE IF toks[idx + 1][2] = "NUMBER" THEN POk(FloatOfText(toks[idx + 1][1]), idx + 1)
    ELSE IF toks[idx + 1][2] = "LPAREN" THEN
        LET inner == HandExpression(toks, idx + 1)
        IN  IF inner.ok /\ inner.idx < Len(toks) /\ toks[inner.idx + 1][2] = "RPAREN"
            THEN POk(inner.val, inner.idx + 1)
            ELSE HandFail
    ELSE IF toks[idx + 1][2] \in {"PLUS", "MINUS"} THEN
        LET operand == HandFactor(toks, idx + 1)
        IN  IF ~operand.ok THEN HandFail
            ELSE POk(IF toks[idx + 1][2] = "PLUS" THEN operand.val
                     ELSE FNeg(operand.val), operand.idx)
    ELSE HandFail

HandEvaluate(toks) ==
    LET r == HandExpression(toks, 0)
    IN  IF r.ok /\ r.idx = Len(toks) THEN Ok(r.val) ELSE HandFail

\* C1 (as claimed): for every token sequence that validate_tokens accepts
\* and that has a hand-evaluated value, parse followed by evaluate returns
\* that value.
C1_ParseEvaluateIsHandValue ==
    (/\ valid # None
     /\ valid.val
     /\ HandEvaluate(tokens).ok
     /\ final_result # None)
    => FEq(final_result.val, HandEvaluate(tokens).val)

\* Running parenthesis depth after the first k tokens.
RECURSIVE DepthAfter(_, _)
DepthAfter(toks, k) ==
    IF k = 0 THEN 0
    ELSE DepthAfter(toks, k - 1)
         + (IF toks[k][2] = "LPAREN" THEN 1
            ELSE IF toks[k][2] = "RPAREN" THEN -1 ELSE 0)

DepthGoesNegative(toks) == \E k \in 1..Len(toks) : DepthAfter(toks, k) < 0

\* C2: validate_tokens returns False for a sequence that is empty, whose
\* running parenthesis depth becomes negative after some prefix, whose
\* depth is nonzero after the last token, or whose last token is an operator.
C2_RejectsEmptyUnbalancedTrailingOperator ==
    (/\ valid # None
     /\ \/ tokens = <<>>
        \/ DepthGoesNegative(tokens)
        \/ DepthAfter(tokens, Len(tokens)) # 0
        \/ tokens[Len(tokens)][2] \in Operators)
    => valid.val = FALSE

C2_Witness ==
    /\ valid # None
    /\ ~valid.val
    /\ tokens # <<>>
    /\ ~DepthGoesNegative(tokens)
    /\ DepthAfter(tokens, Len(tokens)) > 0
    /\ tokens[Len(tokens)][2] = "NUMBER"

HasBadPair(toks) ==
    \E i \in 1..(Len(toks) - 1) :
        LET prev == toks[i][2]
            cur  == toks[i + 1][2]
        IN  \/ prev \in Operators /\ cur \in Operators \cup {"RPAREN"}
            \/ prev = "NUMBER" /\ cur = "NUMBER"
            \/ cur = "LPAREN" /\ prev \in {"NUMBER", "RPAREN"}

\* The same kinds with every text replaced.
Retext(toks) == [i \in 1..Len(toks) |-> <<<<"?">>, toks[i][2]>>]

\* C3: validate_tokens returns False for a sequence with an adjacent pair
\* operator-operator, operator-RPAREN, NUMBER-NUMBER, or LPAREN after NUMBER
\* or RPAREN; and its answer is the same when every token text is replaced.
C3_RejectsBadAdjacentPairs ==
    valid # None =>
        /\ HasBadPair(tokens) => valid.val = FALSE
        /\ valid.val = validate_tokens(Retext(tokens))

C3_Witness ==
    /\ valid # None
    /\ ~valid.val
    /\ Len(tokens) = 3
    /\ tokens[2][2] = "NUMBER"
    /\ tokens[3][2] = "NUMBER"
    /\ DepthAfter(tokens, 3) = 0
    /\ tokens[1][2] = "MINUS"

LaterStages == {"SyntacticAnalyzer", "parse", "evaluate", "solve_by_substitution"}

\* C4: when validate_tokens returns False the pipeline has failed with an
\* error, and no SyntacticAnalyzer is constructed and no parse, evaluate or
\* solve step is executed for the request.
C4_ValidationFailurePreventsParsing ==
    (valid # None /\ ~valid.val) =>
        /\ pc = "raised"
        /\ outcome # None
        /\ ~outcome.ok
        /\ parser = None
        /\ ast_root = None
        /\ final_result = None
        /\ steps = None
        /\ \A i \in 1..Len(trace) : trace[i] \notin LaterStages

C4_Witness ==
    /\ valid # None
    /\ ~valid.val
    /\ pc = "raised"
    /\ tokens # <<>>
    /\ outcome.msg[1] = LexicalTag

\* C5: evaluating a node whose operands evaluate, the division-by-zero error
\* is raised if and only if the node is a BINARY_OP '/' whose right operand
\* evaluates to 0 (a nonzero, also a negative, divisor never raises; no
\* other operator raises); the stepwise solver raises exactly when evaluate
\* does.
C5_DivisionByZeroIffZeroDivisor ==
    /\ (final_result # None /\ ast_root.node_type = "NUMBER") => final_result.ok
    /\ (/\ final_result # None
        /\ ast_root.node_type = "UNARY_OP"
        /\ _evaluate_node(ast_root.right).ok) => final_result.ok
    /\ (/\ final_result # None
        /\ ast_root.node_type = "BINARY_OP"
        /\ _evaluate_node(ast_root.left).ok
        /\ _evaluate_node(ast_root.right).ok)
       => /\ IsDivisionByZero(final_result)
             <=> /\ ast_root.value = <<"/">>
                 /\ _evaluate_node(ast_root.right).val[1] = 0
          /\ final_result.ok \/ IsDivisionByZero(final_result)
    /\ (final_result # None /\ ~final_result.ok) => IsDivisionByZero(final_result)
    /\ (final_result # None /\ steps # None) =>
          /\ steps.ok <=> final_result.ok
          /\ ~steps.ok => IsDivisionByZero(steps)

C5_Witness ==
    /\ final_result # None
    /\ IsDivisionByZero(final_result)
    /\ steps # None
    /\ ast_root.node_type = "BINARY_OP"
    /\ ast_root.value = <<"/">>
    /\ ast_root.right.node_type = "BINARY_OP"
    /\ ast_root.right.left.value # <<0, 1>>

C5_WitnessNegativeDivisor ==
    /\ final_result # None
    /\ final_result.ok
    /\ ast_root.node_type = "BINARY_OP"
    /\ ast_root.value = <<"/">>
    /\ FIsNeg(_evaluate_node(ast_root.right).val)

\* A string that is a bare number, with an optional sign.
IsBareNumber(s) ==
    /\ s # <<>>
    /\ IsNumberText(IF s[1] = "-" THEN Tail(s) ELSE s)

BareNumberValue(s) ==
    IF s[1] = "-" THEN FNeg(FloatOfText(Tail(s))) ELSE FloatOfText(s)

\* C6 (as claimed): once the pipeline has called the stepwise solver
\* (solve_by_substitution) on a parsed and evaluated expression, the solver
\* has returned a non-empty sequence of strings whose last element is a bare
\* number equal to what evaluate returned.
C6_SolverReturnsStepsEndingInResult ==
    (trace # <<>> /\ Last(trace) = "solve_by_substitution") =>
        /\ steps # None
        /\ steps.ok
        /\ steps.val # <<>>
        /\ IsBareNumber(Last(steps.val))
        /\ FEq(BareNumberValue(Last(steps.val)), final_result.val)

\* The tag of the try block of process_raw_expression_pipeline a stage
\* runs in.
BlockTag(stage) ==
    IF stage = "correct_expression" THEN NlpTag
    ELSE IF stage \in {"tokenize", "validate_tokens"} THEN LexicalTag
    ELSE SyntacticTag

C8_CallsLeaveAstUnchanged ==
    [][/\ ast_root' = ast_root
       /\ final_result # None => final_result' = final_result
       /\ normalized_expression # None
             => normalized_expression' = normalized_expression]_vars

C8_Witness ==
    /\ steps # None
    /\ steps.ok
    /\ Len(steps.val) >= 2
    /\ final_result # None
    /\ normalized_expression # None
    /\ ast_root.node_type = "BINARY_OP"
    /\ ast_root.left.node_type = "BINARY_OP"

\* C9 (as claimed): for a well-formed AST that evaluates, tokenizing
\* to_string(ast), parsing the tokens and evaluating the result succeeds and
\* gives the value of evaluate(ast).
C9_RoundTripEvaluatesToSameValue ==
    (roundtrip # None /\ final_result # None /\ final_result.ok) =>
        /\ roundtrip.ok
        /\ FEq(roundtrip.val, final_result.val)

\* Number of tokens of one type.
RECURSIVE CountType(_, _)
CountType(toks, type) ==
    IF toks = <<>> THEN 0
    ELSE (IF toks[1][2] = type THEN 1 ELSE 0) + CountType(Tail(toks), type)

\* Number of occurrences of a character in a string.
RECURSIVE CountChar(_, _)
CountChar(s, c) ==
    IF s = <<>> THEN 0
    ELSE (IF s[1] = c THEN 1 ELSE 0) + CountChar(Tail(s), c)

\* Number of Group nodes of an AST.
RECURSIVE GroupCount(_)
GroupCount(node) ==
    IF node = None THEN 0
    ELSE IF node.node_type = "NUMBER"
    THEN 0
    ELSE (IF node.node_type = "GROUP" THEN 1 ELSE 0)
         + GroupCount(node.left) + GroupCount(node.right)

\* C10 (as claimed): for a token sequence validate_tokens accepts, every
\* '(' expression ')' is parsed (no call fails) into a Group node, and
\* to_string prints one pair of parentheses for each pair of the source.
C10_ParenthesesBecomeGroupsAndArePrinted ==
    (valid # None /\ valid.val /\ CountType(tokens, "LPAREN") > 0) =>
        /\ pc # "raised"
        /\ ast_root # None
              => GroupCount(ast_root) = CountType(tokens, "LPAREN")
        /\ normalized_expression # None
              => CountChar(normalized_expression.val, "(")
                 = CountType(tokens, "LPAREN")

\* Number of BINARY_OP nodes of an AST.
RECURSIVE BinaryCount(_)
BinaryCount(node) ==
    IF node = None THEN 0
    ELSE IF node.node_type = "NUMBER" THEN 0
    ELSE (IF node.node_type = "BINARY_OP" THEN 1 ELSE 0)
         + BinaryCount(node.left) + BinaryCount(node.right)

Precedence(op) == IF op \in {<<"+">>, <<"-">>} THEN 1 ELSE 2

\* The printer of the claim: a BINARY_OP child is wrapped in parentheses
\* only when its operator has strictly lower precedence than its parent's.
RECURSIVE MinimalString(_)
MinimalChild(parent, child) ==
    IF /\ child.node_type = "BINARY_OP"
       /\ Precedence(child.value) < Precedence(parent.value)
    THEN <<"(">> \o MinimalString(child) \o <<")">>
    ELSE MinimalString(child)

MinimalString(node) ==
    IF node.node_type = "NUMBER" THEN FloatStr(node.value)
    ELSE IF node.node_type = "UNARY_OP" THEN
        node.value \o MinimalString(node.right)
    ELSE MinimalChild(node, node.left) \o <<" ">> \o node.value \o <<" ">>
         \o MinimalChild(node, node.right)

TokenChars == Digits \cup {"+", "-", "*", "/", "(", ")"} \cup Whitespace

\* First index of the run of digits that ends at index i.
RECURSIVE RunStart(_, _)
RunStart(e, i) ==
    IF i > 1 /\ e[i - 1] \in Digits THEN RunStart(e, i - 1) ELSE i

\* The '.' at index i is the decimal point of a number: digits on both
\* sides, and the digits before it are not the decimals of another number.
RECURSIVE DotInNumber(_, _)
DotInNumber(e, i) ==
    /\ e[i] = "."
    /\ i > 1 /\ i < Len(e)
    /\ e[i - 1] \in Digits
    /\ e[i + 1] \in Digits
    /\ LET j == RunStart(e, i - 1)
       IN  ~(j > 1 /\ e[j - 1] = "." /\ DotInNumber(e, j - 1))

\* Indexes (1-based) of the characters no token pattern matches.
UnmatchedAt(e) ==
    {i \in 1..Len(e) : e[i] \notin TokenChars /\ ~DotInNumber(e, i)}

Min(S) == CHOOSE x \in S : \A y \in S : x <= y

TokenizeFailed == pc = "raised" /\ Last(trace) = "tokenize"

\* C12: tokenize fails if and only if some character of the input is matched
\* by no token pattern; the error then names the first such character and
\* its 0-based offset, and no token list is returned; otherwise the request
\* goes on with the tokens and nothing is raised by tokenize.
C12_TokenizeFailsAtFirstUnmatchedCharacter ==
    Len(trace) >= 2 =>
        LET e == corrected_expression.val
        IN  /\ TokenizeFailed <=> UnmatchedAt(e) # {}
            /\ TokenizeFailed =>
                  /\ outcome.msg = <<LexicalTag, "Invalid character '",
                                     e[Min(UnmatchedAt(e))], "' at position ">>
                                   \o NatStr(Min(UnmatchedAt(e)) - 1)
                  /\ tokens = <<>>
                  /\ valid = None
            /\ (Len(trace) = 2 /\ ~TokenizeFailed) =>
                  /\ pc = "validate"
                  /\ outcome = None
                  /\ tokens = tokenize(e).val

C12_Witness ==
    /\ TokenizeFailed
    /\ outcome.msg[3] = "."
    /\ outcome.msg[5] = "3"
    /\ Len(corrected_expression.val) = 5

RECURSIVE StripWhitespace(_)
StripWhitespace(e) ==
    IF e = <<>> THEN <<>>
    ELSE (IF e[1] \in Whitespace THEN <<>> ELSE <<e[1]>>) \o StripWhitespace(Tail(e))

\* The token texts, concatenated in order.
RECURSIVE ConcatTexts(_)
ConcatTexts(toks) ==
    IF toks = <<>> THEN <<>> ELSE toks[1][1] \o ConcatTexts(Tail(toks))

\* Index of the first non-whitespace character from index i on.
RECURSIVE SkipWhitespace(_, _)
SkipWhitespace(e, i) ==
    IF i <= Len(e) /\ e[i] \in Whitespace THEN SkipWhitespace(e, i + 1) ELSE i

\* Index in e at which token k starts, the tokens from k on lying in e from
\* index i on, separated by whitespace only.
RECURSIVE TokenStart(_, _, _, _, _)
TokenStart(e, toks, k, j, i) ==
    IF j = k THEN SkipWhitespace(e, i)
    ELSE TokenStart(e, toks, k, j + 1, SkipWhitespace(e, i) + Len(toks[j][1]))

\* C14: when tokenize succeeds no WHITESPACE token is emitted, the token
\* texts concatenated in order are the input without its whitespace, every
\* NUMBER token is the longest text of the number pattern at its start
\* position, and an input without whitespace has no two consecutive NUMBER
\* tokens.
C14_TokensAreInputWithoutWhitespaceMaximalMunch ==
    (Len(trace) >= 2 /\ ~TokenizeFailed) =>
        LET e == corrected_expression.val
        IN  /\ \A k \in 1..Len(tokens) : tokens[k][2] # "WHITESPACE"
            /\ ConcatTexts(tokens) = StripWhitespace(e)
            /\ \A k \in 1..Len(tokens) :
                  LET start == TokenStart(e, tokens, k, 1, 1)
                      text  == tokens[k][1]
                  IN  /\ text = SubSeq(e, start, start + Len(text) - 1)
                      /\ tokens[k][2] = "NUMBER" =>
                            /\ IsNumberText(text)
                            /\ \A n \in (Len(text) + 1)..(Len(e) - start + 1) :
                                  ~IsNumberText(SubSeq(e, start, start + n - 1))
            /\ StripWhitespace(e) = e =>
                  \A k \in 1..(Len(tokens) - 1) :
                      ~(tokens[k][2] = "NUMBER" /\ tokens[k + 1][2] = "NUMBER")

C14_Witness ==
    /\ Len(trace) >= 2
    /\ ~TokenizeFailed
    /\ Len(tokens) = 4
    /\ tokens[1][2] = "NUMBER"
    /\ Len(tokens[1][1]) = 5
    /\ corrected_expression.val[6] = " "
    /\ tokens[2][2] = "NUMBER"

\* C16 (as claimed): for a token sequence for which validate_tokens returns
\* True, no call that parses it raises a syntax error.
C16_ValidatedTokensParse ==
    (valid # None /\ valid.val /\ pc = "raised") => outcome.exc # "SyntaxError"

\* Number of nodes of an AST.
RECURSIVE NodeCount(_)
NodeCount(node) ==
    IF node = None THEN 0
    ELSE IF node.node_type = "NUMBER" THEN 1
    ELSE 1 + NodeCount(node.left) + NodeCount(node.right)

\* C17 (as claimed): when parse has returned an AST the cursor is at the end
\* of the token sequence and every token other than a parenthesis is a node
\* of the AST.
C17_ParseConsumesEveryToken ==
    pc = "parsed" =>
        /\ parser.current_token_index = Len(tokens)
        /\ NodeCount(ast_root)
           = Len(tokens) - CountType(tokens, "LPAREN") - CountType(tokens, "RPAREN")

\* Number of <mn> and <mo> elements of a MathML string.
RECURSIVE ElementCount(_)
ElementCount(str) ==
    IF str = <<>> THEN 0
    ELSE (IF str[1] \in {"<mn>", "<mo>"} THEN 1 ELSE 0) + ElementCount(Tail(str))

\* Number of elements the claim gives the tokens: three for a token that is
\* not an operator or parenthesis and contains a '.', else one.
RECURSIVE ClaimedElements(_)
ClaimedElements(toks) ==
    IF toks = <<>> THEN 0
    ELSE (IF \E i \in 1..Len(toks[1]) : toks[1][i] = "." THEN 3 ELSE 1)
         + ClaimedElements(Tail(toks))

\* C15 (as claimed): for every input string to_mathml returns, between
\* '<math><mrow>' and '</mrow></math>', one element per token, three for a
\* token with a decimal point, also when a run has more than one '.'.
C15_MathmlOneElementPerToken ==
    pc = "to_mathml" =>
        /\ outcome.ok
        /\ outcome.val[1] = "<math><mrow>"
        /\ Last(outcome.val) = "</mrow></math>"
        /\ ElementCount(outcome.val)
           = ClaimedElements(_tokenize_expression(normalized_expression.val))

\* The cursor rules of C18 for one call; during a parse call the cursor
\* values trace'[from], trace'[from + 1], ... never decrease.
CursorRules(from) ==
    LET before == parser.current_token_index
        after  == parser'.current_token_index
    IN  /\ 0 <= after /\ after <= Len(parser'.tokens)
        /\ (pc' = "consume" /\ outcome'.ok) =>
              /\ after = before + 1
              /\ outcome'.val = parser.tokens[before + 1]
        /\ (pc' = "consume" /\ ~outcome'.ok) => after = before
        /\ pc' \in {"current_token", "peek"} => after = before
        /\ pc' = "parse" =>
              /\ trace'[1] = before
              /\ trace'[2] = 0
              /\ Last(trace') = after
              /\ outcome'.ok = parse(parser.tokens).ok
              /\ \A k \in from..(Len(trace') - 1) : trace'[k] <= trace'[k + 1]

\* C18 (amended): 0 <= current_token_index <= len(tokens) always; a
\* successful consume advances the cursor by exactly 1 and returns the token
\* that was current; a consume that raises leaves the cursor unchanged;
\* current_token and peek never change the cursor; and once a parse call
\* has reset the cursor to 0, as it does first, the cursor never decreases
\* during that call.
C18_CursorRulesAfterReset == [][CursorRules(2)]_vars

C18_Witness ==
    /\ pc = "parse"
    /\ trace[1] = 1
    /\ Len(trace) = 4
    /\ parser.current_token_index = 2

\* C18 (as claimed): the same, the cursor never decreasing during one parse
\* call, from its entry on.
C18_CursorNeverDecreasesDuringParse == [][CursorRules(1)]_vars

\* What the pipeline, run alone on expression e, holds once it is at
\* position at: its tokens, the cursor of its analyzer, its AST, its value
\* and the exception it ends with.
AloneTokens(e) == tokenize(e)

AloneParsed(e) == parse(AloneTokens(e).val)

AloneValue(e) ==
    evaluate([SyntacticAnalyzer(AloneTokens(e).val) EXCEPT
                  !.current_token_index = AloneParsed(e).idx],
             AloneParsed(e).val)

AloneOutcome(e) ==
    IF ~AloneTokens(e).ok THEN Wrapped(LexicalTag, AloneTokens(e))
    ELSE IF ~validate_tokens(AloneTokens(e).val) THEN
        Wrapped(LexicalTag,
                Raise("ValueError", <<"Sequência inválida de tokens na expressão">>))
    ELSE IF ~AloneParsed(e).ok THEN Wrapped(SyntacticTag, AloneParsed(e))
    ELSE IF ~AloneValue(e).ok THEN Wrapped(SyntacticTag, AloneValue(e))
    ELSE Wrapped(SyntacticTag, GetMethod("solve_by_substitution"))

AsAlone(r) ==
    LET e == corrected_expression[r].val
    IN  /\ pc[r] \in {"validate", "construct", "parse", "evaluate", "solve"} =>
              tokens[r] = AloneTokens(e).val
        /\ pc[r] = "parse" =>
              Analyzer(r) = SyntacticAnalyzer(AloneTokens(e).val)
        /\ pc[r] \in {"evaluate", "solve"} =>
              /\ Analyzer(r).tokens = AloneTokens(e).val
              /\ Analyzer(r).current_token_index = AloneParsed(e).idx
              /\ Analyzer(r).steps = <<>>
              /\ ast_root[r] = AloneParsed(e).val
        /\ pc[r] = "solve" => final_result[r] = Ok(AloneValue(e).val)
        /\ (pc[r] = "raised" /\ corrected_expression[r] # None) =>
              outcome[r] = AloneOutcome(e)

\* A step that is not request q's leaves q's locals and q's analyzer alone.
LeavesOthersAlone ==
    \A q \in Requests :
        pc'[q] = pc[q] =>
            /\ tokens'[q] = tokens[q]
            /\ ast_root'[q] = ast_root[q]
            /\ final_result'[q] = final_result[q]
            /\ outcome'[q] = outcome[q]
            /\ parser'.of[q] = parser.of[q]
            /\ parser.of[q] # 0 => parser'.heap[parser.of[q]] = parser.heap[parser.of[q]]

\* C13: in every interleaving of the pipeline steps of concurrent requests,
\* each request has the tokens, cursor, AST, value and final exception it
\* has when run alone on its expression; no two requests refer to the same
\* SyntacticAnalyzer; and a step of one request changes no other request's
\* locals, cursor, steps buffer or AST.
C13_RequestsDoNotInterfere ==
    /\ [](\A r \in Requests : AsAlone(r))
    /\ [](\A r, q \in Requests :
             (r # q /\ parser.of[r] # 0) => parser.of[r] # parser.of[q])
    /\ [][LeavesOthersAlone]_vars

C13_Witness ==
    /\ pc[1] = "evaluate"
    /\ pc[2] = "parse"
    /\ parser.of[1] # parser.of[2]
    /\ Analyzer(1).current_token_index = 1
    /\ Analyzer(2).current_token_index = 0
    /\ Analyzer(2).tokens # Analyzer(1).tokens

====
